---- MODULE Spec2Model ----
(***************************************************************************)
(* Model of shell-integration/ssh/bootstrap.py: the kitty ssh kitten's     *)
(* remote bootstrap.  main() opens the controlling terminal, optionally    *)
(* requests the payload, reads a framed base64 block from the terminal,    *)
(* unpacks it, applies the environment manifest and execs the login shell. *)
(*                                                                         *)
(* Byte strings are sequences of tokens.  A token is a run of bytes that   *)
(* the program never looks inside; the whitespace bytes, the byte that     *)
(* only Unicode counts as whitespace (0x1f) and an undecodable byte (0xff) *)
(* are tokens of their own, so stripping and decoding are computed.        *)
(***************************************************************************)
EXTENDS Integers, Sequences, FiniteSets, TLC

\* ------------------------------------------------------------------ bounds
\* most lines the peer sends besides the two markers and the status line
MaxLines == 2
\* most lines of a data.sh that apply_env_vars is run on by itself
MaxDirectives == 2

\* ------------------------------------------------------------- byte strings
LF == "\n"
CR == "\r"
SP == " "
\* 0x1f, UNIT SEPARATOR: whitespace for str.rstrip(), not for bytes.rstrip()
US == "<1f>"
\* 0xff: never valid in UTF-8
XFF == "<ff>"
\* U+FFFD, what decode(..., 'replace') puts for an undecodable byte
UFFFD == "<fffd>"

\* bytes.rstrip() strips the ASCII whitespace bytes
BytesWhitespace == {SP, LF, CR}
\* str.rstrip() strips everything str.isspace() accepts
StrWhitespace == {SP, LF, CR, US}

RECURSIVE RStripSet(_, _)
RStripSet(s, ws) ==
    IF s # <<>> /\ s[Len(s)] \in ws THEN RStripSet(SubSeq(s, 1, Len(s) - 1), ws) ELSE s

\* line.rstrip() on bytes (line 176)
RStrip(s) == RStripSet(s, BytesWhitespace)

\* bytes.decode('utf-8', 'replace') (line 186)
DecodeIgnore(s) == SelectSeq(s, LAMBDA t : t # XFF)
DecodeReplace(s) == [i \in 1..Len(s) |-> IF s[i] = XFF THEN UFFFD ELSE s[i]]

\* str.rstrip() (line 186)
StrRStrip(s) == RStripSet(s, StrWhitespace)

\* the lines the peer can send, as readline() returns them (newline included)
KITTY_DATA_START == <<"KITTY_DATA_START">>
OK == <<"OK">>
KITTY_DATA_END == <<"KITTY_DATA_END">>
Lines ==
    { KITTY_DATA_START \o <<LF>>,
      OK \o <<CR, LF>>,
      KITTY_DATA_END \o <<SP, LF>>,
      <<"QUJD", LF>>,
      <<XFF, "error", US, LF>> }

\* what readline() returns at end of input
EOFLine == <<>>

\* how many characters of the base64 alphabet a token holds; the decoder
\* discards every other byte before it decodes (validate is off)
B64Len(t) ==
    CASE t = "QUJD" -> 4
      [] t = "OK" -> 2
      [] t = "KITTY_DATA_START" -> 14
      [] t = "KITTY_DATA_END" -> 12
      [] t = "error" -> 5
      [] OTHER -> 0

RECURSIVE B64Count(_)
B64Count(s) == IF s = <<>> THEN 0 ELSE B64Len(Head(s)) + B64Count(Tail(s))

\* base64.standard_b64decode (line 212) raises unless the base64 characters
\* come in whole groups of four
B64Valid(s) == B64Count(s) % 4 = 0

\* the decoded bytes, written as the base64 characters they were decoded from
B64Decode(s) == SelectSeq(s, LAMBDA t : B64Len(t) > 0)

\* ------------------------------------------------------ paths, environment
HOME == <<"/", "home", "u">>

\* os.path.basename of a path that does not end in a slash
Basename(p) == <<p[Len(p)]>>

\* str.lower()
Lower(t) ==
    CASE t = "Zsh" -> "zsh"
      [] t = "FISH" -> "fish"
      [] t = "BASH" -> "bash"
      [] OTHER -> t

\* os.path.isabs
IsAbs(p) == p # <<>> /\ p[1] = "/"

\* os.environ as a function from the names that are set to their values
NoEnv == [x \in {} |-> <<>>]
EnvGet(e, k, d) == IF k \in DOMAIN e THEN e[k] ELSE d
EnvSet(e, k, v) == [x \in DOMAIN e \cup {k} |-> IF x = k THEN v ELSE e[x]]
EnvPop(e, k) == [x \in DOMAIN e \ {k} |-> e[x]]

\* the variables the shell-specific branches write
IntegrationVars ==
    { "ZDOTDIR", "KITTY_ORIG_ZDOTDIR", "XDG_DATA_DIRS", "KITTY_FISH_XDG_DATA_DIR",
      "ENV", "KITTY_BASH_INJECT", "HISTFILE", "KITTY_BASH_UNEXPORT_HISTFILE" }

\* the variable references os.path.expandvars recognises in the modelled values
RefName(t) ==
    CASE t = "$A" -> <<"A">>
      [] t = "$B" -> <<"B">>
      [] t = "$C" -> <<"C">>
      [] t = "${HOME}" -> <<"HOME">>
      [] OTHER -> <<>>

\* os.path.expandvars (line 103): a reference to a set variable is replaced by
\* its value, which is not scanned again; any other text is kept
RECURSIVE ExpandVars(_, _)
ExpandVars(val, e) ==
    IF val = <<>> THEN <<>>
    ELSE LET t == Head(val)
             r == RefName(t)
         IN  (IF r # <<>> /\ r[1] \in DOMAIN e THEN e[r[1]] ELSE <<t>>)
                 \o ExpandVars(Tail(val), e)

\* --------------------------------------------------------------- file trees
\* a tree maps the paths of its entries to what is there; a path is the
\* sequence of its components
File(c) == [kind |-> "file", val |-> c]
Dir == [kind |-> "dir", val |-> ""]
Link(target) == [kind |-> "link", val |-> target]
NoFiles == [p \in {} |-> Dir]
TreeSet(t, p, n) == [q \in DOMAIN t \cup {p} |-> IF q = p THEN n ELSE t[q]]
TreeDel(t, p) == [q \in DOMAIN t \ {p} |-> t[q]]
Parent(p) == SubSeq(p, 1, Len(p) - 1)

\* the target of a symbolic link that leads nowhere; every other target in
\* the modelled trees is a regular file
Dangling == "missing"

\* os.path.exists follows symbolic links
Exists(t, p) == p \in DOMAIN t /\ (t[p].kind = "link" => t[p].val # Dangling)
\* os.path.isdir; the home directory itself is there on every machine
IsDir(t, p) == p = HOME \/ (p \in DOMAIN t /\ t[p].kind = "dir")
\* os.listdir
ListDir(t, d) ==
    { p[Len(p)] : p \in { q \in DOMAIN t : Len(q) = Len(d) + 1 /\ Parent(q) = d } }

\* the orders os.listdir can return names in
RECURSIVE Perms(_)
Perms(S) ==
    IF S = {} THEN {<<>>}
    ELSE UNION { { <<x>> \o o : o \in Perms(S \ {x}) } : x \in S }
Orders(t) == Perms({ p[Len(p)] : p \in DOMAIN t })

\* move (lines 115-130).  st is the two trees so far and whether every call
\* has succeeded; listdir returns the names of a directory in the order they
\* have in ord.  The first call that raises ends the whole move.
RECURSIVE MoveList(_, _, _, _, _)
RECURSIVE MoveEntry(_, _, _, _)

\* lines 119-124: a symbolic link replaces what is at dest; unlink fails on a
\* directory, which is ignored, and then symlink raises
MoveLinkKeepsOld(st, path, dest) ==
    IF ~IsDir(st.dst, Parent(dest)) \/ IsDir(st.dst, dest)
    THEN [st EXCEPT !.ok = FALSE]
    ELSE IF dest \in DOMAIN st.dst THEN st
    ELSE [st EXCEPT !.dst = TreeSet(st.dst, dest, st.src[path])]

MoveLink(st, path, dest) ==
    LET d1 == IF dest \in DOMAIN st.dst /\ st.dst[dest].kind # "dir"
                 /\ IsDir(st.dst, Parent(dest))
              THEN TreeDel(st.dst, dest) ELSE st.dst
    IN  IF dest \in DOMAIN d1 \/ ~IsDir(d1, Parent(dest))
        THEN [st EXCEPT !.ok = FALSE, !.dst = d1]
        ELSE [st EXCEPT !.dst = TreeSet(d1, dest, st.src[path])]

\* line 130, shutil.move: into dest when dest is a directory (refusing to
\* replace what is there), else renamed onto dest
MoveFile(st, path, dest) ==
    LET inside == Append(dest, path[Len(path)])
    IN  IF IsDir(st.dst, dest)
        THEN IF Exists(st.dst, inside) THEN [st EXCEPT !.ok = FALSE]
             ELSE [st EXCEPT !.dst = TreeSet(st.dst, inside, st.src[path]),
                             !.src = TreeDel(st.src, path)]
        ELSE IF ~IsDir(st.dst, Parent(dest)) THEN [st EXCEPT !.ok = FALSE]
        ELSE [st EXCEPT !.dst = TreeSet(st.dst, dest, st.src[path]),
                        !.src = TreeDel(st.src, path)]

\* the body of the loop of line 116 for one entry
MoveEntryOutright(st, path, dest, ord) ==
    IF st.src[path].kind = "link" THEN MoveLink(st, path, dest)
    ELSE MoveFile(st, path, dest)

MoveEntry(st, path, dest, ord) ==
    IF st.src[path].kind = "link" THEN MoveLink(st, path, dest)
    ELSE IF st.src[path].kind = "dir"
    THEN IF ~Exists(st.dst, dest)
         THEN IF dest \in DOMAIN st.dst \/ ~IsDir(st.dst, Parent(dest))
              THEN [st EXCEPT !.ok = FALSE]
              ELSE MoveList([st EXCEPT !.dst = TreeSet(st.dst, dest, Dir)], path, dest,
                            SelectSeq(ord, LAMBDA x : x \in ListDir(st.src, path)), ord)
         ELSE MoveList(st, path, dest,
                       SelectSeq(ord, LAMBDA x : x \in ListDir(st.src, path)), ord)
    ELSE MoveFile(st, path, dest)

MoveList(st, src_dir, dest_dir, todo, ord) ==
    IF ~st.ok \/ todo = <<>> THEN st
    ELSE MoveList(MoveEntry(st, Append(src_dir, Head(todo)), Append(dest_dir, Head(todo)),
                            ord),
                  src_dir, dest_dir, Tail(todo), ord)

\* move(src, base_dest), src being the root of the tree
Move(src, dst, base_dest, ord) ==
    MoveList([ok |-> TRUE, src |-> src, dst |-> dst], <<>>, base_dest,
             SelectSeq(ord, LAMBDA x : x \in ListDir(src, <<>>)), ord)

\* ------------------------------------------------------------------- state
VARIABLES
    machine, request_data, echo_on, exec_cmd,
    pc, raised, exit_msg,
    tty_file_obj, tty_echo, echo_start, echo_altered, opens, closes, restores,
    requests, write_data, delivered, late_io,
    started, leading_data, data, lines_read, at_eof, cleared,
    staging, staged, archive, raw, li,
    env, login_shell, data_dir, shell_integration_dir, fs, cwd,
    ksi, env_launch, execs

vars ==
    << machine, request_data, echo_on, exec_cmd, pc, raised, exit_msg,
       tty_file_obj, tty_echo, echo_start, echo_altered, opens, closes, restores,
       requests, write_data, delivered, late_io,
       started, leading_data, data, lines_read, at_eof, cleared,
       staging, staged, archive, raw, li,
       env, login_shell, data_dir, shell_integration_dir, fs, cwd,
       ksi, env_launch, execs >>

configVars == << machine, request_data, echo_on, exec_cmd, echo_start >>
ttyVars ==
    << tty_file_obj, tty_echo, echo_altered, opens, closes, restores, requests,
       write_data, delivered, late_io >>
recvVars == << started, leading_data, data, lines_read, at_eof, cleared >>
installVars == << staging, staged, archive, raw, li, data_dir, shell_integration_dir >>
launchVars == << cwd, ksi, env_launch, execs >>

\* ------------------------------------------------------------ construction
\* EXEC_CMD as the packager substitutes it: empty, or the base64 of a command
ExecCmds == { <<>>, <<"bHMgLWw=">> }

\* base64.standard_b64decode(exec_cmd).decode('utf-8') (line 322)
DecodeCmdSkipped(c) == c
DecodeCmd(c) == IF c = <<"bHMgLWw=">> THEN <<"ls -l">> ELSE c

BinSh == <<"/", "bin", "sh">>

\* the environment the process inherits
BaseEnv == "PATH" :> <<"/", "usr", "bin">>

\* what is in the home directory of a machine that has been used before
OldHome == HOME \o <<".config">> :> File("old")

\* the password database entry of the effective user: absent, or its shell
NoPasswd == NoEnv
Passwd(shell) == "pw_shell" :> shell

\* lines 24-28: the shell of the password database entry; with no entry,
\* SHELL when it is set and not empty; else /bin/sh
DefaultLoginShellFromEnv(environ, passwd) ==
    IF EnvGet(environ, "SHELL", <<>>) # <<>> THEN environ["SHELL"]
    ELSE IF "pw_shell" \in DOMAIN passwd THEN passwd["pw_shell"]
    ELSE BinSh
DefaultLoginShell(environ, passwd) ==
    IF "pw_shell" \in DOMAIN passwd THEN passwd["pw_shell"]
    ELSE IF EnvGet(environ, "SHELL", <<>>) # <<>> THEN environ["SHELL"]
    ELSE BinSh

\* the machines the bootstrap is started on: the password database entry, the
\* inherited environment and what the home directory holds
UsedMachine == [passwd |-> NoPasswd, environ |-> BaseEnv, home |-> OldHome]
Machines ==
    { UsedMachine,
      [passwd |-> Passwd(<<"/", "bin", "bash">>),
       environ |-> BaseEnv @@ ("SHELL" :> <<"/", "bin", "zsh">>),
       home |-> NoFiles],
      [passwd |-> NoPasswd,
       environ |-> BaseEnv @@ ("SHELL" :> <<"/", "bin", "zsh">>)
                           @@ ("KITTY_LOGIN_SHELL" :> <<"/", "usr", "bin", "fish">>),
       home |-> NoFiles] }

NoArchive ==
    [readable |-> FALSE, extractable |-> FALSE, has_data_sh |-> FALSE,
     data_sh |-> <<>>, home |-> NoFiles, has_root |-> FALSE]

\* module level, lines 19-34, on a machine used before, with every
\* configuration the packager can substitute and both states the terminal
\* can be in
Init ==
    /\ machine = UsedMachine
    /\ request_data \in {0, 1}
    /\ echo_on \in {0, 1}
    /\ exec_cmd \in ExecCmds
    /\ echo_start \in BOOLEAN
    /\ tty_echo = echo_start
    /\ pc = "open"
    /\ raised = FALSE
    /\ exit_msg = <<>>
    /\ tty_file_obj = "None"
    /\ echo_altered = FALSE
    /\ opens = 0
    /\ closes = 0
    /\ restores = 0
    /\ requests = 0
    /\ write_data = <<>>
    /\ delivered = <<>>
    /\ late_io = FALSE
    /\ started = 0
    /\ leading_data = <<>>
    /\ data = <<>>
    /\ lines_read = <<>>
    /\ at_eof = FALSE
    /\ cleared = FALSE
    /\ staging = "none"
    /\ staged = NoFiles
    /\ archive = NoArchive
    /\ raw = <<>>
    /\ li = 1
    /\ env = machine.environ
    /\ login_shell = DefaultLoginShell(machine.environ, machine.passwd)
    /\ data_dir = <<>>
    /\ shell_integration_dir = <<>>
    /\ fs = machine.home
    /\ cwd = HOME
    /\ ksi = {}
    /\ env_launch = NoEnv
    /\ execs = <<>>

\* ------------------------------------------------------- terminal channel
\* line 303: the controlling terminal is opened, or the open fails
OpenTty ==
    /\ pc = "open"
    /\ tty_file_obj' = "open"
    /\ opens' = opens + 1
    /\ pc' = "request"
    /\ UNCHANGED << configVars, raised, exit_msg, tty_echo, echo_altered, closes,
                    restores, requests, write_data, delivered, late_io, recvVars,
                    installVars, env, login_shell, fs, launchVars >>

OpenTtyFails ==
    /\ pc = "open"
    /\ pc' = "fatal"
    /\ raised' = TRUE
    /\ exit_msg' = <<"OSError">>
    /\ UNCHANGED << configVars, ttyVars, recvVars, installVars, env, login_shell,
                    fs, launchVars >>

\* set_echo (lines 37-47): the ECHO bit after tcsetattr
SetEchoLeavesBit(bit, on) == bit
SetEcho(bit, on) == on

\* lines 305-306 with request_data set: echo is turned off
SetEchoOff ==
    /\ pc = "request"
    /\ request_data # 0
    /\ tty_echo' = SetEcho(tty_echo, FALSE)
    /\ echo_altered' = (echo_altered \/ tty_echo' # tty_echo)
    /\ late_io' = (late_io \/ tty_file_obj # "open")
    /\ pc' = "send"
    /\ UNCHANGED << configVars, raised, exit_msg, tty_file_obj, opens, closes,
                    restores, requests, write_data, delivered, recvVars, installVars,
                    env, login_shell, fs, launchVars >>

\* dcs_to_kitty (lines 73-77) of the request: the introducer, the base64 of
\* id, password file and password, the terminator
Request == <<"<esc>P@kitty-ssh|", "<base64 id:pwfile:pw>", "<esc><backslash>">>

\* send_data_request (lines 80-81, called at line 307) hands the request to
\* write_all
SendDataRequest ==
    /\ pc = "send"
    /\ requests' = requests + 1
    /\ write_data' = Request
    /\ pc' = "write"
    /\ UNCHANGED << configVars, raised, exit_msg, tty_file_obj, tty_echo,
                    echo_altered, opens, closes, restores, delivered, late_io,
                    recvVars, installVars, env, login_shell, fs, launchVars >>

\* data[n:] (line 70)
RestSkipsOne(d, n) == SubSeq(d, n + 2, Len(d))
Rest(d, n) == SubSeq(d, n + 1, Len(d))

\* write_all (lines 63-70), one os.write that takes the first n bytes of the
\* buffer, n >= 1; the loop ends when nothing is left
Write(n) ==
    /\ pc = "write"
    /\ n \in 1..Len(write_data)
    /\ delivered' = delivered \o SubSeq(write_data, 1, n)
    /\ write_data' = Rest(write_data, n)
    /\ late_io' = (late_io \/ tty_file_obj # "open")
    /\ pc' = IF write_data' = <<>> THEN "read" ELSE "write"
    /\ UNCHANGED << configVars, raised, exit_msg, tty_file_obj, tty_echo,
                    echo_altered, opens, closes, restores, requests, recvVars,
                    installVars, env, login_shell, fs, launchVars >>

\* lines 68-69: os.write returns 0 and write_all gives up
WriteNothing ==
    /\ pc = "write"
    /\ late_io' = (late_io \/ tty_file_obj # "open")
    /\ pc' = "read"
    /\ UNCHANGED << configVars, raised, exit_msg, tty_file_obj, tty_echo,
                    echo_altered, opens, closes, restores, requests, write_data,
                    delivered, recvVars, installVars, env, login_shell, fs,
                    launchVars >>

\* lines 66-67: os.write raises BlockingIOError, which is caught
WriteBlocks ==
    /\ pc = "write"
    /\ late_io' = (late_io \/ tty_file_obj # "open")
    /\ pc' = "blocked"
    /\ UNCHANGED << configVars, raised, exit_msg, tty_file_obj, tty_echo,
                    echo_altered, opens, closes, restores, requests, write_data,
                    delivered, recvVars, installVars, env, login_shell, fs,
                    launchVars >>

\* line 67: continue, back to the test of line 63
Retry ==
    /\ pc = "blocked"
    /\ pc' = "write"
    /\ UNCHANGED << configVars, raised, exit_msg, ttyVars, recvVars, installVars,
                    env, login_shell, fs, launchVars >>

\* line 305 with request_data clear: the payload is pushed unasked
NoDataRequest ==
    /\ pc = "request"
    /\ request_data = 0
    /\ pc' = "read"
    /\ UNCHANGED << configVars, raised, exit_msg, ttyVars, recvVars, installVars,
                    env, login_shell, fs, launchVars >>

\* cleanup (lines 50-56), reached through the finally of line 309; the
\* exception that brought it here, if any, then ends the process
CleanupLeavesOpen ==
    /\ pc = "cleanup"
    /\ pc' = IF raised THEN "fatal" ELSE "launch"
    /\ UNCHANGED << configVars, raised, exit_msg, ttyVars, recvVars, installVars,
                    env, login_shell, fs, launchVars >>

Cleanup ==
    /\ pc = "cleanup"
    /\ IF tty_file_obj # "None"
       THEN /\ tty_echo' = IF echo_on # 0 THEN SetEcho(tty_echo, TRUE) ELSE tty_echo
            /\ restores' = IF echo_on # 0 THEN restores + 1 ELSE restores
            /\ closes' = closes + 1
            /\ tty_file_obj' = "None"
       ELSE UNCHANGED << tty_echo, restores, closes, tty_file_obj >>
    /\ echo_altered' = (echo_altered \/ tty_echo' # tty_echo)
    /\ pc' = IF raised THEN "fatal" ELSE "launch"
    /\ UNCHANGED << configVars, raised, exit_msg, opens, requests, write_data,
                    delivered, late_io, recvVars, installVars, env, login_shell, fs,
                    launchVars >>

\* ------------------------------------------------- transfer protocol codec
\* one pass of the loop of iter_base64_data (lines 176-190) on the line read:
\* the zone after it, the two buffers, and how the pass ends
IterStepYieldsNoise(st, leading, joined, rawline) ==
    LET line == RStrip(rawline)
    IN  IF st = 0
        THEN IF line = KITTY_DATA_START
             THEN [started |-> 1, leading_data |-> leading, data |-> joined,
                   end |-> "next", msg |-> <<>>]
             ELSE [started |-> 0, leading_data |-> leading \o line,
                   data |-> joined \o line, end |-> "next", msg |-> <<>>]
        ELSE IF st = 1
        THEN IF line = OK
             THEN [started |-> 2, leading_data |-> leading, data |-> joined,
                   end |-> "next", msg |-> <<>>]
             ELSE [started |-> 1, leading_data |-> leading, data |-> joined,
                   end |-> "exit", msg |-> StrRStrip(DecodeReplace(line))]
        ELSE IF line = KITTY_DATA_END
             THEN [started |-> 2, leading_data |-> leading, data |-> joined,
                   end |-> "break", msg |-> <<>>]
             ELSE [started |-> 2, leading_data |-> leading, data |-> joined \o line,
                   end |-> "next", msg |-> <<>>]

IterStepSkipsOk(st, leading, joined, rawline) ==
    LET line == RStrip(rawline)
    IN  IF st = 0
        THEN IF line = KITTY_DATA_START
             THEN [started |-> 1, leading_data |-> leading, data |-> joined,
                   end |-> "next", msg |-> <<>>]
             ELSE [started |-> 0,
                   leading_data |-> IF line = OK THEN leading ELSE leading \o line,
                   data |-> joined, end |-> "next", msg |-> <<>>]
        ELSE IF st = 1
        THEN IF line = OK
             THEN [started |-> 2, leading_data |-> leading, data |-> joined,
                   end |-> "next", msg |-> <<>>]
             ELSE [started |-> 1, leading_data |-> leading, data |-> joined,
                   end |-> "exit", msg |-> StrRStrip(DecodeReplace(line))]
        ELSE IF line = KITTY_DATA_END
             THEN [started |-> 2, leading_data |-> leading, data |-> joined,
                   end |-> "break", msg |-> <<>>]
             ELSE [started |-> 2, leading_data |-> leading, data |-> joined \o line,
                   end |-> "next", msg |-> <<>>]

IterStep(st, leading, joined, rawline) ==
    LET line == RStrip(rawline)
    IN  IF st = 0
        THEN IF line = KITTY_DATA_START
             THEN [started |-> 1, leading_data |-> leading, data |-> joined,
                   end |-> "next", msg |-> <<>>]
             ELSE [started |-> 0, leading_data |-> leading \o line, data |-> joined,
                   end |-> "next", msg |-> <<>>]
        ELSE IF st = 1
        THEN IF line = OK
             THEN [started |-> 2, leading_data |-> leading, data |-> joined,
                   end |-> "next", msg |-> <<>>]
             ELSE [started |-> 1, leading_data |-> leading, data |-> joined,
                   end |-> "exit", msg |-> StrRStrip(DecodeReplace(line))]
        ELSE IF line = KITTY_DATA_END
             THEN [started |-> 2, leading_data |-> leading, data |-> joined,
                   end |-> "break", msg |-> <<>>]
             ELSE [started |-> 2, leading_data |-> leading, data |-> joined \o line,
                   end |-> "next", msg |-> <<>>]

\* the peer may send the line: the stream is open, and the line is a marker,
\* the status line, or one of the MaxLines other lines
MaySend(rawline) ==
    /\ ~at_eof
    /\ Len(lines_read) - started >= MaxLines =>
          CASE started = 0 -> RStripSet(rawline, BytesWhitespace) = KITTY_DATA_START
            [] started = 1 -> TRUE
            [] started = 2 -> RStripSet(rawline, BytesWhitespace) = KITTY_DATA_END

\* the effect of one readline() of get_data's join (line 206) on the state
Receive(rawline) ==
    LET r == IterStep(started, leading_data, data, rawline)
    IN  /\ started' = r.started
        /\ leading_data' = r.leading_data
        /\ data' = r.data
        /\ late_io' = (late_io \/ tty_file_obj # "open")
        /\ raised' = (r.end = "exit")
        /\ exit_msg' = r.msg
        /\ pc' = CASE r.end = "next" -> "read"
                   [] r.end = "break" -> "joined"
                   [] r.end = "exit" -> "cleanup"
        /\ UNCHANGED << configVars, tty_file_obj, tty_echo, echo_altered, opens,
                        closes, restores, requests, write_data, delivered, cleared,
                        installVars, env, login_shell, fs, launchVars >>

\* the peer's next line arrives
ReadLine(rawline) ==
    /\ pc = "read"
    /\ MaySend(rawline)
    /\ lines_read' = Append(lines_read, rawline)
    /\ UNCHANGED at_eof
    /\ Receive(rawline)

\* the peer has closed the terminal: readline() returns the empty string, now
\* and at every later call
ReadEOF ==
    /\ pc = "read"
    /\ at_eof' = TRUE
    /\ UNCHANGED lines_read
    /\ Receive(EOFLine)

\* ---------------------------------------- environment directive interpreter
\* process_defn (lines 96-104) on a parsed JSON array: the new environment,
\* or the unpacking of line 101 raises
ProcessDefnAlwaysExpands(e, parts) ==
    IF Len(parts) = 1
    THEN [ok |-> TRUE, env |-> EnvSet(e, parts[1], <<>>)]
    ELSE IF Len(parts) = 3
    THEN [ok |-> TRUE, env |-> EnvSet(e, parts[1], ExpandVars(parts[2], e))]
    ELSE [ok |-> FALSE, env |-> e]

ProcessDefn(e, parts) ==
    IF Len(parts) = 1
    THEN [ok |-> TRUE, env |-> EnvSet(e, parts[1], <<>>)]
    ELSE IF Len(parts) = 3
    THEN [ok |-> TRUE,
          env |-> EnvSet(e, parts[1],
                         IF ~parts[3] THEN ExpandVars(parts[2], e) ELSE parts[2])]
    ELSE [ok |-> FALSE, env |-> e]

\* one pass of the loop of apply_env_vars (lines 106-111)
ApplyLine(e, line) ==
    IF line.cmd = "export" THEN ProcessDefn(e, line.parts)
    ELSE IF line.cmd = "unset"
    THEN IF Len(line.parts) = 0 THEN [ok |-> FALSE, env |-> e]
         ELSE [ok |-> TRUE, env |-> EnvPop(e, line.parts[1])]
    ELSE [ok |-> TRUE, env |-> e]

Export3(k, v, q) == [cmd |-> "export", parts |-> <<k, v, q>>]
Export2(k, v) == [cmd |-> "export", parts |-> <<k, v>>]
Export1(k) == [cmd |-> "export", parts |-> <<k>>]
Unset(k) == [cmd |-> "unset", parts |-> <<k>>]

\* lines 106-111: the next line of data.sh is applied, or raises
EnvLine ==
    /\ pc = "env"
    /\ li <= Len(raw)
    /\ LET r == ApplyLine(env, raw[li])
       IN  /\ env' = r.env
           /\ li' = IF r.ok THEN li + 1 ELSE li
           /\ raised' = ~r.ok
           /\ exit_msg' = IF r.ok THEN exit_msg ELSE <<"ValueError">>
           /\ pc' = IF r.ok THEN "env" ELSE "rmtree"
    /\ UNCHANGED << configVars, ttyVars, recvVars, staging, staged, archive, raw,
                    data_dir, shell_integration_dir, login_shell, fs, launchVars >>

\* line 112: the override of the login shell is taken out of the environment
EnvDone ==
    /\ pc = "env"
    /\ li > Len(raw)
    /\ login_shell' = EnvGet(env, "KITTY_LOGIN_SHELL", login_shell)
    /\ env' = EnvPop(env, "KITTY_LOGIN_SHELL")
    /\ pc' = "datadir"
    /\ UNCHANGED << configVars, raised, exit_msg, ttyVars, recvVars, installVars,
                    fs, launchVars >>

\* -------------------------------------------------------- archive installer
DataDirLine == Export3("KITTY_SSH_KITTEN_DATA_DIR", <<".local", "kitty-ssh">>, TRUE)
KsiLine(v) == Export3("KITTY_SHELL_INTEGRATION", v, TRUE)
ShellLine(p) == Export3("KITTY_LOGIN_SHELL", p, TRUE)
Enabled == <<"enabled">>
NoRc == <<"no-rc">>

Arch(m, h, r) ==
    [readable |-> TRUE, extractable |-> TRUE, has_data_sh |-> TRUE,
     data_sh |-> m, home |-> h, has_root |-> r]

\* what an archive holds under home/
ZshHome == <<".zshrc">> :> File("new")
ConfigHome ==
    (<<".zshrc">> :> File("new")) @@ (<<".config">> :> Dir)
        @@ (<<".config", "kitty.conf">> :> File("new"))

\* the archives the decoded payload can be
Archives ==
    { NoArchive,
      [NoArchive EXCEPT !.readable = TRUE],
      [NoArchive EXCEPT !.readable = TRUE, !.extractable = TRUE],
      Arch(<<DataDirLine, KsiLine(Enabled), ShellLine(<<"/", "bin", "zsh">>)>>,
           ZshHome, FALSE),
      Arch(<<DataDirLine, KsiLine(Enabled), ShellLine(<<"/", "bin", "zsh">>)>>,
           NoFiles, FALSE),
      Arch(<<DataDirLine, KsiLine(Enabled), ShellLine(<<"/", "usr", "bin", "fish">>)>>,
           NoFiles, FALSE),
      Arch(<<DataDirLine, KsiLine(Enabled), ShellLine(<<"/", "bin", "bash">>)>>,
           ZshHome, TRUE),
      Arch(<<DataDirLine, KsiLine(Enabled)>>, NoFiles, FALSE),
      Arch(<<DataDirLine, KsiLine(<<Enabled[1], SP, NoRc[1]>>)>>, NoFiles, FALSE),
      Arch(<<KsiLine(Enabled)>>, NoFiles, FALSE),
      Arch(<<DataDirLine, Export2("KITTY_LOGIN_CWD", <<"/", "tmp">>)>>, NoFiles, FALSE),
      Arch(<<DataDirLine, Unset("KITTY_LOGIN_SHELL")>>, ConfigHome, FALSE) }

\* an exception inside the with block of line 213 leaves through the finally
\* of temporary_directory
Raise(msg) ==
    /\ raised' = TRUE
    /\ exit_msg' = msg
    /\ pc' = "rmtree"

\* lines 207-212: the joined lines are base64-decoded
Decode ==
    /\ pc = "joined"
    /\ cleared' = (leading_data # <<>>)
    /\ IF B64Valid(data)
       THEN /\ data' = B64Decode(data)
            /\ pc' = "untar"
            /\ UNCHANGED << raised, exit_msg >>
       ELSE /\ UNCHANGED data
            /\ raised' = TRUE
            /\ exit_msg' = <<"binascii.Error">>
            /\ pc' = "cleanup"
    /\ UNCHANGED << configVars, ttyVars, started, leading_data, lines_read, at_eof,
                    installVars, env, login_shell, fs, launchVars >>

\* the decoded bytes that can be a tar archive; the markers, the status text
\* and no bytes at all are none
TarBytes == <<"QUJD">>

\* line 213: the staging directory is made, then the bytes are opened as an
\* archive
OpenArchive(a) ==
    /\ pc = "untar"
    /\ staging' = "exists"
    /\ IF data = TarBytes /\ a.readable
       THEN /\ archive' = a
            /\ pc' = "extract"
            /\ UNCHANGED << raised, exit_msg >>
       ELSE /\ UNCHANGED archive
            /\ Raise(<<"tarfile.ReadError">>)
    /\ UNCHANGED << configVars, ttyVars, recvVars, staged, raw, li, data_dir,
                    shell_integration_dir, env, login_shell, fs, launchVars >>

\* lines 214-220: the members are written under the staging directory
Extract ==
    /\ pc = "extract"
    /\ IF archive.extractable
       THEN /\ staged' = archive.home
            /\ pc' = "manifest"
            /\ UNCHANGED << raised, exit_msg >>
       ELSE /\ UNCHANGED staged
            /\ Raise(<<"tarfile.ExtractError">>)
    /\ UNCHANGED << configVars, ttyVars, recvVars, staging, archive, raw, li,
                    data_dir, shell_integration_dir, env, login_shell, fs,
                    launchVars >>

\* lines 221-223: data.sh is read and handed to apply_env_vars
ReadManifest ==
    /\ pc = "manifest"
    /\ IF archive.has_data_sh
       THEN /\ raw' = archive.data_sh
            /\ li' = 1
            /\ pc' = "env"
            /\ UNCHANGED << raised, exit_msg >>
       ELSE /\ UNCHANGED << raw, li >>
            /\ Raise(<<"IOError">>)
    /\ UNCHANGED << configVars, ttyVars, recvVars, staging, staged, archive,
                    data_dir, shell_integration_dir, env, login_shell, fs,
                    launchVars >>

\* lines 224-228
PopDataDir ==
    /\ pc = "datadir"
    /\ IF "KITTY_SSH_KITTEN_DATA_DIR" \in DOMAIN env
       THEN /\ data_dir' = (IF IsAbs(env["KITTY_SSH_KITTEN_DATA_DIR"])
                            THEN env["KITTY_SSH_KITTEN_DATA_DIR"]
                            ELSE HOME \o env["KITTY_SSH_KITTEN_DATA_DIR"])
            /\ shell_integration_dir' = data_dir' \o <<"shell-integration">>
            /\ env' = EnvPop(env, "KITTY_SSH_KITTEN_DATA_DIR")
            /\ pc' = "terminfo"
            /\ UNCHANGED << raised, exit_msg >>
       ELSE /\ UNCHANGED << data_dir, shell_integration_dir, env >>
            /\ Raise(<<"KeyError">>)
    /\ UNCHANGED << configVars, ttyVars, recvVars, staging, staged, archive, raw,
                    li, login_shell, fs, launchVars >>

\* compile_terminfo (lines 133-169): no tic on the PATH, or tic runs and
\* exits with rc; cdb is whether /usr/share/misc/terminfo.cdb exists
TicResults == {"absent", "rc0", "rc1"}
CompileTerminfo(tic, cdb) ==
    /\ pc = "terminfo"
    /\ tic = "absent" => ~cdb
    /\ env' = IF tic = "absent" THEN env
              ELSE EnvSet(env, "TERMINFO",
                          Append(HOME, IF cdb THEN ".terminfo.cdb" ELSE ".terminfo"))
    /\ IF tic = "rc1"
       THEN Raise(<<"Failed to compile the terminfo database">>)
       ELSE pc' = "move_home" /\ UNCHANGED << raised, exit_msg >>
    /\ UNCHANGED << configVars, ttyVars, recvVars, installVars, login_shell, fs,
                    launchVars >>

\* line 230: move of the staged home/ into HOME, listdir answering in the
\* order ord; an OSError out of it leaves what was moved before it
MoveHome(ord) ==
    /\ pc = "move_home"
    /\ LET r == Move(staged, fs, HOME, ord)
       IN  /\ staged' = r.src
           /\ fs' = r.dst
           /\ IF r.ok
              THEN pc' = "move_root" /\ UNCHANGED << raised, exit_msg >>
              ELSE Raise(<<"OSError">>)
    /\ UNCHANGED << configVars, ttyVars, recvVars, staging, archive, raw, li,
                    data_dir, shell_integration_dir, env, login_shell, launchVars >>

\* lines 231-232: the archive's root/, when it has one, is merged into /
MoveRoot(ok) ==
    /\ pc = "move_root"
    /\ ~ok => archive.has_root
    /\ IF ok
       THEN pc' = "rmtree" /\ UNCHANGED << raised, exit_msg >>
       ELSE Raise(<<"OSError">>)
    /\ UNCHANGED << configVars, ttyVars, recvVars, installVars, env, login_shell,
                    fs, launchVars >>

\* temporary_directory's finally (line 200), on the way out of the with block
RemoveStagingUnlessRaised ==
    /\ pc = "rmtree"
    /\ staging' = IF raised THEN staging ELSE "removed"
    /\ staged' = IF raised THEN staged ELSE NoFiles
    /\ pc' = "cleanup"
    /\ UNCHANGED << configVars, raised, exit_msg, ttyVars, recvVars, archive, raw,
                    li, data_dir, shell_integration_dir, env, login_shell, fs,
                    launchVars >>

RemoveStaging ==
    /\ pc = "rmtree"
    /\ staging' = "removed"
    /\ staged' = NoFiles
    /\ pc' = "cleanup"
    /\ UNCHANGED << configVars, raised, exit_msg, ttyVars, recvVars, archive, raw,
                    li, data_dir, shell_integration_dir, env, login_shell, fs,
                    launchVars >>

\* ---------------------------------------------------- shell launch selector
ExecResults == {"ok", "ENOENT", "EACCES"}

\* exec_with_better_error (lines 235-241): the process image is replaced, or
\* execlp raises and the process ends
ExecErrorSwallowed(file, argv, res) ==
    /\ execs' = Append(execs, [file |-> file, argv |-> argv, res |-> res])
    /\ pc' = IF res = "ok" THEN "execd" ELSE "default"
    /\ raised' = raised
    /\ exit_msg' = exit_msg

ExecWithBetterError(file, argv, res) ==
    /\ execs' = Append(execs, [file |-> file, argv |-> argv, res |-> res])
    /\ pc' = IF res = "ok" THEN "execd" ELSE "fatal"
    /\ raised' = (res # "ok")
    /\ exit_msg' = CASE res = "ok" -> exit_msg
                     [] res = "ENOENT" ->
                            <<"The program: \"">> \o file \o <<"\" was not found">>
                     [] OTHER -> <<"OSError">>

\* line 318: the tokens of KITTY_SHELL_INTEGRATION
KsiTokens(e) ==
    LET v == EnvGet(e, "KITTY_SHELL_INTEGRATION", <<>>)
    IN  { v[i] : i \in { j \in 1..Len(v) : v[j] \notin StrWhitespace } }

\* install_kitty_bootstrap (lines 287-296) on the environment
InstallKittyBootstrap(e, kitty_exists) ==
    LET kitty_remote == EnvGet(e, "KITTY_REMOTE", <<>>)
        kitty_dir == data_dir \o <<"kitty", "bin">>
        e1 == EnvSet(EnvPop(e, "KITTY_REMOTE"), "SSH_KITTEN_KITTY_DIR", kitty_dir)
    IN  IF kitty_remote = <<"yes">> \/ (kitty_remote = <<"if-needed">> /\ ~kitty_exists)
        THEN IF "PATH" \notin DOMAIN e1 THEN [ok |-> FALSE, env |-> e1]
             ELSE [ok |-> TRUE,
                   env |-> EnvSet(e1, "PATH",
                                  IF kitty_exists THEN kitty_dir \o <<":">> \o e1["PATH"]
                                  ELSE e1["PATH"] \o <<":">> \o kitty_dir)]
        ELSE [ok |-> TRUE, env |-> e1]

\* lines 311-318: KITTY_LOGIN_CWD is taken out, the kitty launcher is put on
\* the PATH, the working directory is changed, the integration tokens are read
PrepareLaunch(kitty_exists, chdir_ok) ==
    /\ pc = "launch"
    /\ LET cwdv == EnvGet(env, "KITTY_LOGIN_CWD", <<>>)
           r == InstallKittyBootstrap(EnvPop(env, "KITTY_LOGIN_CWD"), kitty_exists)
       IN  /\ env' = r.env
           /\ raised' = ~r.ok
           /\ exit_msg' = IF r.ok THEN exit_msg ELSE <<"KeyError">>
           /\ cwd' = IF r.ok /\ cwdv # <<>> /\ chdir_ok THEN cwdv ELSE cwd
           /\ ksi' = IF r.ok THEN KsiTokens(r.env) ELSE ksi
           /\ env_launch' = IF r.ok THEN r.env ELSE env_launch
           /\ pc' = IF r.ok THEN "select" ELSE "fatal"
    /\ UNCHANGED << configVars, ttyVars, recvVars, installVars, login_shell, fs,
                    execs >>

\* lines 319-323: a one-shot command is run by the login shell
ExecCommand(res) ==
    /\ pc = "select"
    /\ exec_cmd # <<>>
    /\ env' = EnvPop(env, "KITTY_SHELL_INTEGRATION")
    /\ ExecWithBetterError(login_shell,
                           <<Basename(login_shell), <<"-c">>, DecodeCmd(exec_cmd)>>, res)
    /\ UNCHANGED << configVars, ttyVars, recvVars, installVars, login_shell, fs, cwd,
                    ksi, env_launch >>

\* the test of line 325
IntegrationIgnoresNoRc(k) == k # {}
IntegrationEnabled(k) == k # {} /\ "no-rc" \notin k

\* line 278
ShellName == Lower(Basename(login_shell)[1])

\* line 325 false: no shell integration
SkipIntegration ==
    /\ pc = "select"
    /\ exec_cmd = <<>>
    /\ ~IntegrationEnabled(ksi)
    /\ pc' = "default"
    /\ UNCHANGED << configVars, raised, exit_msg, ttyVars, recvVars, installVars,
                    env, login_shell, fs, launchVars >>

ZshFiles == {".zshrc", ".zshenv", ".zprofile", ".zlogin"}

\* exec_zsh_with_integration (lines 244-256) up to the exec: whether a startup
\* file was found, and the environment
ZshAlwaysRedirects(e, files, sid) ==
    [found |-> TRUE, env |-> EnvSet(e, "ZDOTDIR", sid \o <<"zsh">>)]
ZshSetup(e, files, sid) ==
    LET zd == EnvGet(e, "ZDOTDIR", <<>>)
        zdotdir == IF zd = <<>> THEN HOME ELSE zd
        e1 == IF zd = <<>> THEN EnvPop(e, "KITTY_ORIG_ZDOTDIR")
              ELSE EnvSet(e, "KITTY_ORIG_ZDOTDIR", zd)
    IN  IF \E q \in ZshFiles : Exists(files, zdotdir \o <<q>>)
        THEN [found |-> TRUE, env |-> EnvSet(e1, "ZDOTDIR", sid \o <<"zsh">>)]
        ELSE [found |-> FALSE, env |-> EnvPop(e1, "KITTY_ORIG_ZDOTDIR")]

\* lines 279-280 and 244-255: zsh with a startup file is exec'd with -l
ExecZshWithIntegration(res) ==
    /\ pc = "select"
    /\ exec_cmd = <<>>
    /\ IntegrationEnabled(ksi)
    /\ ShellName = "zsh"
    /\ ZshSetup(env, fs, shell_integration_dir).found
    /\ env' = ZshSetup(env, fs, shell_integration_dir).env
    /\ ExecWithBetterError(login_shell, <<Basename(login_shell), <<"-l">>>>, res)
    /\ UNCHANGED << configVars, ttyVars, recvVars, installVars, login_shell, fs, cwd,
                    ksi, env_launch >>

\* lines 279-280 and 244-256: zsh without startup files returns to main
ZshFirstRun ==
    /\ pc = "select"
    /\ exec_cmd = <<>>
    /\ IntegrationEnabled(ksi)
    /\ ShellName = "zsh"
    /\ ~ZshSetup(env, fs, shell_integration_dir).found
    /\ env' = ZshSetup(env, fs, shell_integration_dir).env
    /\ pc' = "default"
    /\ UNCHANGED << configVars, raised, exit_msg, ttyVars, recvVars, installVars,
                    login_shell, fs, launchVars >>

\* exec_fish_with_integration (lines 259-264), the environment
FishSetupOverwrites(e, sid) ==
    EnvSet(EnvSet(e, "XDG_DATA_DIRS", sid), "KITTY_FISH_XDG_DATA_DIR", sid)
FishSetup(e, sid) ==
    LET e1 == IF EnvGet(e, "XDG_DATA_DIRS", <<>>) = <<>>
              THEN EnvSet(e, "XDG_DATA_DIRS", sid)
              ELSE EnvSet(e, "XDG_DATA_DIRS", sid \o <<":">> \o e["XDG_DATA_DIRS"])
    IN  EnvSet(e1, "KITTY_FISH_XDG_DATA_DIR", sid)

\* lines 281-282 and 259-265
ExecFishWithIntegration(res) ==
    /\ pc = "select"
    /\ exec_cmd = <<>>
    /\ IntegrationEnabled(ksi)
    /\ ShellName = "fish"
    /\ env' = FishSetup(env, shell_integration_dir)
    /\ ExecWithBetterError(login_shell, <<Basename(login_shell), <<"-l">>>>, res)
    /\ UNCHANGED << configVars, ttyVars, recvVars, installVars, login_shell, fs, cwd,
                    ksi, env_launch >>

\* exec_bash_with_integration (lines 268-273), the environment
BashSetup(e, sid) ==
    LET e1 == EnvSet(EnvSet(e, "ENV", sid \o <<"bash", "kitty.bash">>),
                     "KITTY_BASH_INJECT", <<"1">>)
    IN  IF EnvGet(e1, "HISTFILE", <<>>) = <<>>
        THEN EnvSet(EnvSet(e1, "HISTFILE", HOME \o <<".bash_history">>),
                    "KITTY_BASH_UNEXPORT_HISTFILE", <<"1">>)
        ELSE e1

\* lines 283-284 and 268-274; argv[0] is the basename of the literal
\* 'login_shell'
ExecBashWithIntegration(res) ==
    /\ pc = "select"
    /\ exec_cmd = <<>>
    /\ IntegrationEnabled(ksi)
    /\ ShellName = "bash"
    /\ env' = BashSetup(env, shell_integration_dir)
    /\ ExecWithBetterError(login_shell, <<<<"login_shell">>, <<"--posix">>>>, res)
    /\ UNCHANGED << configVars, ttyVars, recvVars, installVars, login_shell, fs, cwd,
                    ksi, env_launch >>

\* lines 278-284 for any other shell: nothing is done
OtherShell ==
    /\ pc = "select"
    /\ exec_cmd = <<>>
    /\ IntegrationEnabled(ksi)
    /\ ShellName \notin {"zsh", "fish", "bash"}
    /\ pc' = "default"
    /\ UNCHANGED << configVars, raised, exit_msg, ttyVars, recvVars, installVars,
                    env, login_shell, fs, launchVars >>

\* lines 327-328: the login shell, argv[0] made of '-' and its basename
DefaultExecKeepsKsi(res) ==
    /\ pc = "default"
    /\ env' = env
    /\ ExecWithBetterError(login_shell, << <<"-">> \o Basename(login_shell) >>, res)
    /\ UNCHANGED << configVars, ttyVars, recvVars, installVars, login_shell, fs, cwd,
                    ksi, env_launch >>

DefaultExec(res) ==
    /\ pc = "default"
    /\ env' = EnvPop(env, "KITTY_SHELL_INTEGRATION")
    /\ ExecWithBetterError(login_shell, << <<"-">> \o Basename(login_shell) >>, res)
    /\ UNCHANGED << configVars, ttyVars, recvVars, installVars, login_shell, fs, cwd,
                    ksi, env_launch >>

\* ------------------------------------------------------------ specifications
Launch ==
    \/ \E k \in BOOLEAN, c \in BOOLEAN : PrepareLaunch(k, c)
    \/ \E res \in ExecResults : ExecCommand(res)
    \/ SkipIntegration
    \/ \E res \in ExecResults : ExecZshWithIntegration(res)
    \/ ZshFirstRun
    \/ \E res \in ExecResults : ExecFishWithIntegration(res)
    \/ \E res \in ExecResults : ExecBashWithIntegration(res)
    \/ OtherShell
    \/ \E res \in ExecResults : DefaultExec(res)

\* lines 213-232, then the finally of line 309
Install ==
    \/ \E a \in Archives : OpenArchive(a)
    \/ Extract
    \/ ReadManifest
    \/ EnvLine
    \/ EnvDone
    \/ PopDataDir
    \/ \E tic \in TicResults, cdb \in BOOLEAN : CompileTerminfo(tic, cdb)
    \/ \E ord \in Orders(staged) : MoveHome(ord)
    \/ \E ok \in BOOLEAN : MoveRoot(ok)
    \/ RemoveStaging
    \/ Cleanup

\* main (lines 299-328)
Next ==
    \/ OpenTty
    \/ OpenTtyFails
    \/ SetEchoOff
    \/ SendDataRequest
    \/ \E n \in 1..Len(Request) : Write(n)
    \/ WriteNothing
    \/ WriteBlocks
    \/ Retry
    \/ NoDataRequest
    \/ \E rawline \in Lines : ReadLine(rawline)
    \/ ReadEOF
    \/ Decode
    \/ Install
    \/ Launch

Spec == Init /\ [][Next]_vars

\* ---- the launch selector on its own, from every state main can reach line 311 in
LaunchShells ==
    { <<"/", "bin", "zsh">>, <<"/", "opt", "Zsh">>, <<"/", "usr", "bin", "fish">>,
      <<"/", "usr", "bin", "FISH">>, <<"/", "bin", "bash">>, <<"/", "bin", "BASH">>,
      BinSh }
KsiValues ==
    { <<>>, <<SP>>, NoRc, Enabled, <<"no-cursor", SP, "no-title">>,
      <<Enabled[1], SP, NoRc[1]>>, <<NoRc[1], SP, SP, "no-cwd">> }
ZDir == <<"/", "zd">>

\* the variable unset, or set to one of the values
Optional(k, values) == {NoEnv} \cup { k :> v : v \in values }

LaunchEnvs ==
    { BaseEnv @@ a @@ b @@ c @@ d @@ e :
        a \in Optional("KITTY_SHELL_INTEGRATION", KsiValues),
        b \in Optional("ZDOTDIR", {<<>>, ZDir}),
        c \in Optional("KITTY_ORIG_ZDOTDIR", {<<"/", "stale">>}),
        d \in Optional("XDG_DATA_DIRS", {<<"/", "usr", "share">>}),
        e \in Optional("HISTFILE", {<<"/", "h">>}) }

LaunchFiles ==
    { [p \in S |-> File("old")] : S \in SUBSET { HOME \o <<".zshrc">>, ZDir \o <<".zlogin">> } }

PlainArchive == Arch(<<DataDirLine>>, NoFiles, FALSE)

\* after get_data and cleanup have returned (line 311): the terminal closed,
\* the staging directory gone, the data directory known; the environment, the
\* login shell and the startup files are whatever the machine and data.sh gave
InitLaunch ==
    /\ machine = [passwd |-> NoPasswd, environ |-> BaseEnv, home |-> NoFiles]
    /\ request_data = 1
    /\ echo_on = 1
    /\ exec_cmd \in ExecCmds
    /\ echo_start = TRUE
    /\ tty_echo = TRUE
    /\ pc = "launch"
    /\ raised = FALSE
    /\ exit_msg = <<>>
    /\ tty_file_obj = "None"
    /\ echo_altered = TRUE
    /\ opens = 1
    /\ closes = 1
    /\ restores = 1
    /\ requests = 1
    /\ write_data = <<>>
    /\ delivered = Request
    /\ late_io = FALSE
    /\ started = 2
    /\ leading_data = <<>>
    /\ data = <<"QUJD">>
    /\ lines_read = << KITTY_DATA_START \o <<LF>>, OK \o <<CR, LF>>, <<"QUJD", LF>>,
                       KITTY_DATA_END \o <<SP, LF>> >>
    /\ at_eof = FALSE
    /\ cleared = FALSE
    /\ staging = "removed"
    /\ staged = NoFiles
    /\ archive = PlainArchive
    /\ raw = PlainArchive.data_sh
    /\ li = 2
    /\ env \in LaunchEnvs
    /\ login_shell \in LaunchShells
    /\ data_dir = HOME \o <<".local", "kitty-ssh">>
    /\ shell_integration_dir = HOME \o <<".local", "kitty-ssh", "shell-integration">>
    /\ fs \in LaunchFiles
    /\ cwd = HOME
    /\ ksi = {}
    /\ env_launch = NoEnv
    /\ execs = <<>>

SpecLaunch == InitLaunch /\ [][Launch]_vars

\* ---- get_data from line 212 on and the launch after it, on every machine
\* the payload has been received and decoded, the terminal is still open
InitInstall ==
    /\ machine \in Machines
    /\ request_data = 1
    /\ echo_on = 1
    /\ exec_cmd \in ExecCmds
    /\ echo_start = TRUE
    /\ tty_echo = FALSE
    /\ pc = "untar"
    /\ raised = FALSE
    /\ exit_msg = <<>>
    /\ tty_file_obj = "open"
    /\ echo_altered = TRUE
    /\ opens = 1
    /\ closes = 0
    /\ restores = 0
    /\ requests = 1
    /\ write_data = <<>>
    /\ delivered = Request
    /\ late_io = FALSE
    /\ started = 2
    /\ leading_data = <<>>
    /\ data = <<"QUJD">>
    /\ lines_read = << KITTY_DATA_START \o <<LF>>, OK \o <<CR, LF>>, <<"QUJD", LF>>,
                       KITTY_DATA_END \o <<SP, LF>> >>
    /\ at_eof = FALSE
    /\ cleared = FALSE
    /\ staging = "none"
    /\ staged = NoFiles
    /\ archive = NoArchive
    /\ raw = <<>>
    /\ li = 1
    /\ env = machine.environ
    /\ login_shell = DefaultLoginShell(machine.environ, machine.passwd)
    /\ data_dir = <<>>
    /\ shell_integration_dir = <<>>
    /\ fs = machine.home
    /\ cwd = HOME
    /\ ksi = {}
    /\ env_launch = NoEnv
    /\ execs = <<>>

InstallAndLaunch ==
    \/ Install
    \/ Launch

SpecInstall == InitInstall /\ [][InstallAndLaunch]_vars

\* ---- move on its own, on every pair of a staged tree and a home directory
\* a tree is closed under parents: what holds an entry is a directory
WellFormedTree(t, base) ==
    \A p \in DOMAIN t :
        Parent(p) = base \/ (Parent(p) \in DOMAIN t /\ t[Parent(p)].kind = "dir")

\* the staged trees: a top-level entry f, a directory d and an entry in it
SrcTrees ==
    { t \in { f @@ d @@ df :
                f \in Optional(<<"f">>, {File("new"), Link("t1")}),
                d \in Optional(<<"d">>, {Dir, File("new"), Link("t1")}),
                df \in Optional(<<"d", "f">>, {File("new"), Link("t2")}) } :
          WellFormedTree(t, <<>>) }

\* the home directories: what is at f, at d, and in d when it is a directory
DstTrees ==
    { t \in { f @@ ff @@ d @@ df @@ dg :
                f \in Optional(HOME \o <<"f">>,
                               {File("old"), Link("t0"), Link(Dangling), Dir}),
                ff \in Optional(HOME \o <<"f", "f">>, {File("old")}),
                d \in Optional(HOME \o <<"d">>, {File("old"), Link("t0"), Dir}),
                df \in Optional(HOME \o <<"d", "f">>, {File("old"), Link("t0"), Dir}),
                dg \in Optional(HOME \o <<"d", "g">>, {File("old")}) } :
          WellFormedTree(t, HOME) }

\* get_data at line 230, about to call move on the staged home/
InitMove ==
    /\ machine \in { [passwd |-> NoPasswd, environ |-> BaseEnv, home |-> t] :
                        t \in DstTrees }
    /\ request_data = 0
    /\ echo_on = 0
    /\ exec_cmd = <<>>
    /\ echo_start = TRUE
    /\ tty_echo = TRUE
    /\ pc = "move_home"
    /\ raised = FALSE
    /\ exit_msg = <<>>
    /\ tty_file_obj = "open"
    /\ echo_altered = FALSE
    /\ opens = 1
    /\ closes = 0
    /\ restores = 0
    /\ requests = 0
    /\ write_data = <<>>
    /\ delivered = <<>>
    /\ late_io = FALSE
    /\ started = 2
    /\ leading_data = <<>>
    /\ data = <<"QUJD">>
    /\ lines_read = << KITTY_DATA_START \o <<LF>>, OK \o <<CR, LF>>, <<"QUJD", LF>>,
                       KITTY_DATA_END \o <<SP, LF>> >>
    /\ at_eof = FALSE
    /\ cleared = FALSE
    /\ staging = "exists"
    /\ archive \in { Arch(<<DataDirLine>>, t, FALSE) : t \in SrcTrees }
    /\ staged = archive.home
    /\ raw = archive.data_sh
    /\ li = 2
    /\ env = BaseEnv
    /\ login_shell = BinSh
    /\ data_dir = HOME \o <<".local", "kitty-ssh">>
    /\ shell_integration_dir = HOME \o <<".local", "kitty-ssh", "shell-integration">>
    /\ fs = machine.home
    /\ cwd = HOME
    /\ ksi = {}
    /\ env_launch = NoEnv
    /\ execs = <<>>

MoveCall == \E ord \in Orders(staged) : MoveHome(ord)

SpecMove == InitMove /\ [][MoveCall]_vars

\* main runs on: the interpreter takes the next step whenever there is one
FairSpec == Spec /\ WF_vars(Next)
FairSpecLaunch == SpecLaunch /\ WF_vars(Launch)

\* ---- apply_env_vars on its own, on every manifest of up to MaxDirectives lines
Directives ==
    { Export1("A"),
      Export2("A", <<"1">>),
      Export3("A", <<"$B">>, FALSE),
      Export3("A", <<"$B">>, TRUE),
      Export3("A", <<"${HOME}", "/", "$B", "$C">>, FALSE),
      Export3("B", <<"2">>, TRUE),
      Export3("KITTY_LOGIN_SHELL", <<"/", "bin", "zsh">>, TRUE),
      Unset("B") }

RECURSIVE SeqsUpTo(_, _)
SeqsUpTo(S, n) ==
    IF n = 0 THEN {<<>>}
    ELSE LET shorter == SeqsUpTo(S, n - 1)
         IN  shorter \cup { Append(m, d) : m \in shorter, d \in S }

EnvManifests == SeqsUpTo(Directives, MaxDirectives)

InitialEnvs ==
    { BaseEnv @@ a @@ b @@ c :
        a \in Optional("A", {<<"old">>}),
        b \in Optional("B", {<<"3">>, <<"$A">>}),
        c \in Optional("HOME", {HOME}) }

\* get_data at line 223, about to call apply_env_vars on the text of data.sh
InitEnv ==
    /\ machine \in { [passwd |-> NoPasswd, environ |-> e, home |-> NoFiles] :
                        e \in InitialEnvs }
    /\ request_data = 0
    /\ echo_on = 0
    /\ exec_cmd = <<>>
    /\ echo_start = TRUE
    /\ tty_echo = TRUE
    /\ pc = "env"
    /\ raised = FALSE
    /\ exit_msg = <<>>
    /\ tty_file_obj = "open"
    /\ echo_altered = FALSE
    /\ opens = 1
    /\ closes = 0
    /\ restores = 0
    /\ requests = 0
    /\ write_data = <<>>
    /\ delivered = <<>>
    /\ late_io = FALSE
    /\ started = 2
    /\ leading_data = <<>>
    /\ data = <<"QUJD">>
    /\ lines_read = << KITTY_DATA_START \o <<LF>>, OK \o <<CR, LF>>, <<"QUJD", LF>>,
                       KITTY_DATA_END \o <<SP, LF>> >>
    /\ at_eof = FALSE
    /\ cleared = FALSE
    /\ staging = "exists"
    /\ staged = NoFiles
    /\ raw \in EnvManifests
    /\ archive = Arch(raw, NoFiles, FALSE)
    /\ li = 1
    /\ env = machine.environ
    /\ login_shell = DefaultLoginShell(machine.environ, machine.passwd)
    /\ data_dir = <<>>
    /\ shell_integration_dir = <<>>
    /\ fs = {}
    /\ cwd = HOME
    /\ ksi = {}
    /\ env_launch = NoEnv
    /\ execs = <<>>

ApplyEnvVars ==
    \/ EnvLine
    \/ EnvDone

SpecEnv == InitEnv /\ [][ApplyEnvVars]_vars

\* ------------------------------------------------------------------- claims
\* a line as the classifier compares it: without its trailing whitespace
Content(rawline) == RStripSet(rawline, BytesWhitespace)

\* the first of the lines that is `want` once stripped, 0 when none is
RECURSIVE FirstAt(_, _, _)
FirstAt(ls, want, i) ==
    IF i > Len(ls) THEN 0
    ELSE IF RStripSet(ls[i], BytesWhitespace) = want THEN i
    ELSE FirstAt(ls, want, i + 1)

\* where the start marker is among the lines read, 0 when it is not
StartIdx == FirstAt(lines_read, KITTY_DATA_START, 1)

\* the lines read are noise, the start marker, OK, body lines, the end marker
WellFormedFrame ==
    /\ StartIdx > 0
    /\ Len(lines_read) >= StartIdx + 2
    /\ Content(lines_read[StartIdx + 1]) = OK
    /\ Content(lines_read[Len(lines_read)]) = KITTY_DATA_END
    /\ \A k \in (StartIdx + 2)..(Len(lines_read) - 1) :
          Content(lines_read[k]) # KITTY_DATA_END

RECURSIVE ConcatContent(_, _, _)
ConcatContent(ls, from, to) ==
    IF from > to THEN <<>>
    ELSE Content(ls[from]) \o ConcatContent(ls, from + 1, to)

FrameBody == ConcatContent(lines_read, StartIdx + 2, Len(lines_read) - 1)

\* C1: once a well-formed frame (noise, KITTY_DATA_START, OK, N body lines,
\* KITTY_DATA_END) has been read, reading is over, and what get_data hands to
\* the base64 decoder is the body lines in order, stripped, and nothing else
C1_ReceiveYieldsBody ==
    WellFormedFrame => /\ pc # "read"
                       /\ pc = "joined" => data = FrameBody

C1_Witness ==
    /\ pc = "joined"
    /\ WellFormedFrame
    /\ StartIdx = 2
    /\ Len(lines_read) = 5
    /\ data = <<"OK">>

\* the line read right after the start marker, when there is one
StatusRead == StartIdx > 0 /\ (Len(lines_read) > StartIdx \/ at_eof)
StatusLine ==
    IF Len(lines_read) > StartIdx THEN Content(lines_read[StartIdx + 1]) ELSE EOFLine

\* the status line is not OK
StatusRefused == StatusRead /\ StatusLine # OK

\* receive has failed and nothing else was done
FailedAtStatus ==
    /\ pc \in {"cleanup", "fatal"}
    /\ raised
    /\ Len(lines_read) <= StartIdx + 1
    /\ data = <<>>
    /\ staging = "none"
    /\ env = machine.environ
    /\ execs = <<>>

\* a byte string as text: undecodable bytes replaced, trailing whitespace
\* (as Unicode has it) dropped
ReplacedText(b) ==
    RStripSet([i \in 1..Len(b) |-> IF b[i] = XFF THEN UFFFD ELSE b[i]],
              {SP, LF, CR, US})

\* C2 as stated: a status line other than OK fails the receive at once, and
\* the failure message is the status line's text exactly
C2_StatusTextExactly ==
    StatusRefused => FailedAtStatus /\ exit_msg = StatusLine

\* C2: a status line other than OK fails the receive at once (no body line
\* read, no staging directory, no environment change), and the failure
\* message is the status line decoded as UTF-8 with undecodable bytes
\* replaced and trailing whitespace stripped
C2_StatusLineIsTheMessage ==
    StatusRefused => FailedAtStatus /\ exit_msg = ReplacedText(StatusLine)

C2_Witness ==
    /\ pc = "fatal"
    /\ StatusRefused
    /\ StatusLine = <<XFF, "error", US>>
    /\ exit_msg = <<UFFFD, "error">>
    /\ closes = 1

\* C3: once the input has ended before the end marker was read, the
\* bootstrap ends with a fatal error
C3_EofIsFatal == at_eof ~> (pc = "fatal")

\* C4: if the echo bit was altered, it has the value it had at the start
\* once the terminal is closed
C4_EchoRestoredAtClose ==
    (closes >= 1 /\ echo_altered) => tty_echo = echo_start

\* C5: once the terminal was opened it is closed exactly once on every way
\* out, echo is restored at most once, an exec comes only after the close,
\* and the terminal is not used after it
C5_ReleasedOnce ==
    /\ closes <= 1
    /\ restores <= 1
    /\ ~late_io
    /\ closes = 1 => tty_file_obj = "None"
    /\ execs # <<>> => closes = 1
    /\ (opens = 1 /\ pc \in {"launch", "select", "default", "execd", "fatal"}) =>
          closes = 1

C5_Witness ==
    /\ pc = "fatal"
    /\ staging = "removed"
    /\ exit_msg = <<"KeyError">>
    /\ opens = 1
    /\ closes = 1
    /\ restores = 1

\* ---- the launch selector
\* the state is past line 318: the integration tokens have been read
Selecting == pc \in {"select", "default", "execd"} \/ (pc = "fatal" /\ execs # <<>>)

\* the process is over
Ended == pc \in {"execd", "fatal"}

\* the last component of the login shell's path
ShellBase == login_shell[Len(login_shell)]

\* KITTY_SHELL_INTEGRATION as the launch selector found it
KsiAtLaunch ==
    IF "KITTY_SHELL_INTEGRATION" \in DOMAIN env_launch
    THEN env_launch["KITTY_SHELL_INTEGRATION"]
    ELSE <<>>
KsiHasNoRc == \E i \in 1..Len(KsiAtLaunch) : KsiAtLaunch[i] = "no-rc"
KsiHasToken == \E i \in 1..Len(KsiAtLaunch) : KsiAtLaunch[i] \notin {SP, LF, CR}

\* k is set or unset in both environments alike
SameVar(e1, e2, k) ==
    /\ k \in DOMAIN e1 <=> k \in DOMAIN e2
    /\ k \in DOMAIN e1 => e1[k] = e2[k]

\* the launch selector has written none of the shell-specific variables
IntegrationVarsUntouched == \A k \in IntegrationVars : SameVar(env, env_launch, k)

\* every exec attempted so far is the one given, and there is at most one
OnlyExec(argv) ==
    /\ Len(execs) <= 1
    /\ \A i \in 1..Len(execs) : execs[i].file = login_shell /\ execs[i].argv = argv

\* C6: with a one-shot command the only exec is login_shell -c <command>, and
\* the launch selector writes no shell-specific variable
C6_OneShotCommand ==
    (exec_cmd # <<>> /\ Selecting) =>
        /\ OnlyExec(<< <<ShellBase>>, <<"-c">>, <<"ls -l">> >>)
        /\ IntegrationVarsUntouched
        /\ pc # "default"
        /\ Ended => Len(execs) = 1

C6_Witness ==
    /\ pc = "execd"
    /\ exec_cmd # <<>>
    /\ ShellBase = "fish"
    /\ KsiAtLaunch = <<"enabled">>
    /\ execs[1].argv = << <<"fish">>, <<"-c">>, <<"ls -l">> >>

\* C7: without a one-shot command and with no-rc among the tokens, no
\* shell-specific setup runs and the only exec is the bare login exec
C7_NoRcSkipsIntegration ==
    (exec_cmd = <<>> /\ Selecting /\ KsiHasNoRc) =>
        /\ OnlyExec(<< <<"-", ShellBase>> >>)
        /\ IntegrationVarsUntouched
        /\ Ended => Len(execs) = 1

C7_Witness ==
    /\ pc = "execd"
    /\ exec_cmd = <<>>
    /\ KsiAtLaunch = <<"enabled", SP, "no-rc">>
    /\ ShellBase = "zsh"
    /\ HOME \o <<".zshrc">> \in DOMAIN fs
    /\ execs[1].argv = << <<"-", "zsh">> >>

\* the exec is the fish or bash integration invocation
FishInvocation ==
    /\ Len(execs) = 1
    /\ execs[1].file = login_shell
    /\ execs[1].argv = << <<ShellBase>>, <<"-l">> >>
    /\ "XDG_DATA_DIRS" \in DOMAIN env
    /\ env["XDG_DATA_DIRS"] =
          (IF "XDG_DATA_DIRS" \in DOMAIN env_launch /\ env_launch["XDG_DATA_DIRS"] # <<>>
           THEN shell_integration_dir \o <<":">> \o env_launch["XDG_DATA_DIRS"]
           ELSE shell_integration_dir)
BashInvocation ==
    /\ Len(execs) = 1
    /\ execs[1].file = login_shell
    /\ Len(execs[1].argv) = 2
    /\ execs[1].argv[2] = <<"--posix">>
    /\ "ENV" \in DOMAIN env
    /\ env["ENV"] = shell_integration_dir \o <<"bash", "kitty.bash">>
    /\ "KITTY_BASH_INJECT" \in DOMAIN env
    /\ env["KITTY_BASH_INJECT"] = <<"1">>
IsFish == ShellBase \in {"fish", "FISH"}
IsBash == ShellBase \in {"bash", "BASH"}

\* C8 as stated: for fish and bash, no one-shot command and no no-rc token
\* (the variable unset or empty included), the exec is the integration one
C8_AbsenceOfNoRcEnables ==
    (exec_cmd = <<>> /\ Ended /\ Selecting /\ ~KsiHasNoRc) =>
        /\ IsFish => FishInvocation
        /\ IsBash => BashInvocation

\* C8: for fish and bash, no one-shot command, at least one token in
\* KITTY_SHELL_INTEGRATION and no no-rc among them, the exec is the
\* integration one; with no token at all it is the default login exec
C8_TokensWithoutNoRcEnable ==
    (exec_cmd = <<>> /\ Ended /\ Selecting /\ ~KsiHasNoRc) =>
        IF KsiHasToken
        THEN /\ IsFish => FishInvocation
             /\ IsBash => BashInvocation
        ELSE (IsFish \/ IsBash) => OnlyExec(<< <<"-", ShellBase>> >>)

C8_Witness ==
    /\ pc = "execd"
    /\ exec_cmd = <<>>
    /\ KsiAtLaunch = <<"enabled">>
    /\ ShellBase = "FISH"
    /\ "XDG_DATA_DIRS" \in DOMAIN env_launch
    /\ FishInvocation

\* the zsh startup files under the effective ZDOTDIR, as the launch found it
EffectiveZdotdir ==
    IF "ZDOTDIR" \in DOMAIN env_launch /\ env_launch["ZDOTDIR"] # <<>>
    THEN env_launch["ZDOTDIR"]
    ELSE HOME
HasZshStartupFile ==
    \E q \in {".zshrc", ".zshenv", ".zprofile", ".zlogin"} :
        Append(EffectiveZdotdir, q) \in DOMAIN fs

\* the zsh branch has run and returned or exec'd
ZshBranchRan ==
    /\ exec_cmd = <<>>
    /\ ShellBase \in {"zsh", "Zsh"}
    /\ KsiHasToken
    /\ ~KsiHasNoRc
    /\ pc \in {"default", "execd", "fatal"}
    /\ Selecting

\* C9: the zsh branch redirects ZDOTDIR and execs with -l exactly when a
\* startup file exists under the effective ZDOTDIR; otherwise ZDOTDIR is as
\* it was and the exec is the default login exec, without -l
C9_ZshRedirectsIffStartupFile ==
    ZshBranchRan =>
        IF HasZshStartupFile
        THEN /\ "ZDOTDIR" \in DOMAIN env
             /\ env["ZDOTDIR"] = Append(shell_integration_dir, "zsh")
             /\ Len(execs) = 1
             /\ OnlyExec(<< <<ShellBase>>, <<"-l">> >>)
        ELSE /\ SameVar(env, env_launch, "ZDOTDIR")
             /\ OnlyExec(<< <<"-", ShellBase>> >>)
             /\ Ended => Len(execs) = 1

C9_Witness ==
    /\ pc = "execd"
    /\ ZshBranchRan
    /\ ~HasZshStartupFile
    /\ EffectiveZdotdir = ZDir
    /\ HOME \o <<".zshrc">> \in DOMAIN fs
    /\ execs[1].argv = << <<"-", "Zsh">> >>

\* ---- the environment directive interpreter
\* the variable a token refers to, <<>> when it is plain text
Reference(t) ==
    IF t = "$A" THEN <<"A">>
    ELSE IF t = "$B" THEN <<"B">>
    ELSE IF t = "$C" THEN <<"C">>
    ELSE IF t = "${HOME}" THEN <<"HOME">>
    ELSE <<>>

\* val with every reference to a variable set in e replaced by its value
RECURSIVE Expanded(_, _)
Expanded(val, e) ==
    IF val = <<>> THEN <<>>
    ELSE LET last == val[Len(val)]
             front == Expanded(SubSeq(val, 1, Len(val) - 1), e)
         IN  IF Reference(last) # <<>> /\ Reference(last)[1] \in DOMAIN e
             THEN front \o e[Reference(last)[1]]
             ELSE Append(front, last)

\* e with exactly the variable k set to v
WithVar(e, k, v) == [x \in DOMAIN e \cup {k} |-> IF x = k THEN v ELSE e[x]]

\* apply_env_vars is at an export line with n elements
AtExport(n) ==
    /\ pc = "env"
    /\ li <= Len(raw)
    /\ raw[li].cmd = "export"
    /\ Len(raw[li].parts) = n

MachineShell ==
    IF machine.passwd # NoPasswd THEN machine.passwd["pw_shell"]
    ELSE IF "SHELL" \in DOMAIN machine.environ /\ machine.environ["SHELL"] # <<>>
    THEN machine.environ["SHELL"]
    ELSE <<"/", "bin", "sh">>

\* apply_env_vars has processed every line of data.sh and is about to return
ManifestDone == pc = "env" /\ li > Len(raw)

\* C11: when apply_env_vars returns, KITTY_LOGIN_SHELL is out of the
\* environment and the login shell is the value the variable had after the
\* last line, or the machine's default when it was not set then; no other
\* step changes the login shell, and every exec runs it
C11_LoginShellOverride ==
    [][ /\ ManifestDone =>
            /\ "KITTY_LOGIN_SHELL" \notin DOMAIN env'
            /\ login_shell' = IF "KITTY_LOGIN_SHELL" \in DOMAIN env
                               THEN env["KITTY_LOGIN_SHELL"]
                               ELSE MachineShell
        /\ ~ManifestDone => login_shell' = login_shell
        /\ execs' # execs => execs'[Len(execs')].file = login_shell
      ]_vars

C11_Witness ==
    /\ pc = "execd"
    /\ "KITTY_LOGIN_SHELL" \in DOMAIN machine.environ
    /\ raw = <<DataDirLine, Unset("KITTY_LOGIN_SHELL")>>
    /\ login_shell = <<"/", "bin", "zsh">>
    /\ execs[1].file = <<"/", "bin", "zsh">>

\* ---- the staging directory
\* get_data is inside the with block of line 213
InWithBlock ==
    pc \in {"extract", "manifest", "env", "datadir", "terminfo", "move_home",
            "move_root", "rmtree"}

\* C12: once made, the staging directory exists only while get_data is inside
\* its with block: it has been removed, with all it held, on every way out of
\* the block, so at every exec and when the process ends
C12_StagingRemoved ==
    /\ staging = "exists" => InWithBlock
    /\ (pc # "untar" /\ ~InWithBlock) => staging = "removed" /\ staged = NoFiles
    /\ execs # <<>> => staging = "removed"

C12_Witness ==
    /\ pc = "fatal"
    /\ exit_msg = <<"OSError">>
    /\ HOME \o <<".zshrc">> \in DOMAIN fs
    /\ HOME \o <<".config", "kitty.conf">> \notin DOMAIN fs
    /\ staging = "removed"

\* ---- the end of the process
\* main is between line 311 and its last exec
Launching == pc \in {"launch", "select", "default"}

\* the exec just attempted
LastExec == execs[Len(execs)]

\* C13: main never returns.  From line 311 on the process always comes to an
\* end, which is a successful exec or a fatal error; after a shell-specific
\* branch has fallen through the next step is the default login exec; an exec
\* that fails ends the process with an error, and nothing follows the end
C13_NeverReturns ==
    /\ [][ /\ ~Ended
           /\ pc = "default" =>
                 /\ Len(execs') = Len(execs) + 1
                 /\ execs'[Len(execs')].argv = << <<"-", ShellBase>> >>
           /\ execs' # execs =>
                 /\ Len(execs') = 1
                 /\ Ended'
                 /\ pc' = "execd" <=> execs'[1].res = "ok"
                 /\ pc' = "fatal" <=> raised'
                 /\ execs'[1].res = "ENOENT" =>
                        exit_msg' = <<"The program: \"">> \o login_shell
                                        \o <<"\" was not found">>
         ]_vars
    /\ Launching ~> Ended

C13_Witness ==
    /\ pc = "fatal"
    /\ ZshBranchRan
    /\ ~HasZshStartupFile
    /\ Len(execs) = 1
    /\ execs[1].res = "EACCES"
    /\ execs[1].argv = << <<"-", "zsh">> >>

\* ---- the merge
\* the path under HOME of a staged path
InHome(p) == HOME \o p

\* the staged path a path under HOME comes from
Staged(p) == SubSeq(p, Len(HOME) + 1, Len(p))

\* the entries of the archive's home/ that are not directories
Leaves == { p \in DOMAIN archive.home : archive.home[p].kind # "dir" }

\* move has returned without raising
MoveDone == pc = "move_root"

\* what is at HOME/p comes from the archive: the link, or the file, which
\* is put inside a directory that was at HOME/p
Merged(p) ==
    \/ InHome(p) \in DOMAIN fs /\ fs[InHome(p)] = archive.home[p]
    \/ /\ archive.home[p].kind = "file"
       /\ InHome(p) \in DOMAIN machine.home
       /\ machine.home[InHome(p)].kind = "dir"
       /\ Append(InHome(p), p[Len(p)]) \in DOMAIN fs
       /\ fs[Append(InHome(p), p[Len(p)])] = archive.home[p]

OnlyLinks == Leaves # {} /\ \A p \in Leaves : archive.home[p].kind = "link"

\* no directory of the home directory is where a link goes, and what is where
\* a directory goes is a directory
NothingInTheWay ==
    \A p \in DOMAIN archive.home :
        IF archive.home[p].kind = "dir"
        THEN InHome(p) \in DOMAIN machine.home => machine.home[InHome(p)].kind = "dir"
        ELSE InHome(p) \in DOMAIN machine.home => machine.home[InHome(p)].kind # "dir"

\* C15: a move of symbolic links does not raise when nothing, a file or a
\* link is where they go; it leaves the source as it is, and a second move of
\* the same source, in whatever order, does not raise and leaves every link
\* with the target it had after the first
C15_MoveIdempotentOnLinks ==
    (OnlyLinks /\ pc # "move_home") =>
        /\ NothingInTheWay => MoveDone
        /\ MoveDone =>
              /\ staged = archive.home
              /\ \A p \in Leaves : fs[InHome(p)] = archive.home[p]
              /\ \A ord \in Orders(staged) :
                    LET again == Move(staged, fs, HOME, ord)
                    IN  /\ again.ok
                        /\ again.src = staged
                        /\ \A p \in Leaves : again.dst[InHome(p)] = fs[InHome(p)]

C15_Witness ==
    /\ MoveDone
    /\ OnlyLinks
    /\ archive.home = (<<"d">> :> Dir) @@ (<<"d", "f">> :> Link("t2"))
                        @@ (<<"f">> :> Link("t1"))
    /\ machine.home = (HOME \o <<"f">> :> File("old")) @@ (HOME \o <<"d">> :> Dir)
                        @@ (HOME \o <<"d", "f">> :> Link("t0"))
    /\ fs[HOME \o <<"f">>] = Link("t1")
    /\ fs[HOME \o <<"d", "f">>] = Link("t2")

\* ---- the data request
\* s is the beginning of t
IsPrefix(s, t) == Len(s) <= Len(t) /\ s = SubSeq(t, 1, Len(s))

\* the terminal has not been released
Held == closes = 0

\* main is past line 307
PastRequest == pc \notin {"open", "request", "send", "write", "blocked"}

Writing == pc \in {"write", "blocked"}

\* C17 as stated: whenever write_all returns, the whole request has been
\* delivered
C17_ReturnsWhenAllDelivered ==
    (request_data # 0 /\ PastRequest /\ opens = 1) => delivered = Request

\* C17: would-block is never fatal and the same bytes are tried again; what
\* the terminal has taken is at all times the beginning of the request, and
\* with the bytes not yet written it is the request; write_all returns when
\* all of it is delivered, and also when a write takes nothing, leaving the
\* rest undelivered
C17_WriteAllDeliversPrefix ==
    [][ /\ IsPrefix(delivered', Request)
        /\ IsPrefix(delivered, delivered')
        /\ Writing' => delivered' \o write_data' = Request
        /\ pc' = "blocked" => pc = "write" /\ write_data' = write_data
        /\ pc = "blocked" =>
              /\ pc' = "write"
              /\ write_data' = write_data
              /\ delivered' = delivered
              /\ ~raised'
        /\ (pc = "write" /\ ~Writing') =>
              /\ pc' = "read"
              /\ ~raised'
              /\ \/ delivered' = Request
                 \/ delivered' = delivered /\ write_data' = write_data
        /\ (pc = "write" /\ pc' = "write") =>
              Len(delivered') > Len(delivered) /\ write_data' # <<>>
      ]_vars

C17_Witness ==
    /\ pc = "blocked"
    /\ delivered = <<Request[1]>>
    /\ write_data = <<Request[2], Request[3]>>

\* ---- partial completion
\* the file or link p of the archive's home/ is in the home directory
Placed(p) == InHome(p) \in DOMAIN fs /\ fs[InHome(p)] = archive.home[p]

\* C18: when the bootstrap has ended with a fatal error, none or all of the
\* files and links of the archive's home/ are in the home directory
C18_NoHalfMerge ==
    pc = "fatal" => (\A p \in Leaves : ~Placed(p)) \/ (\A p \in Leaves : Placed(p))

\* ---- the line classifier
\* the lines read before the start marker, stripped and joined in order
NoiseRead ==
    ConcatContent(lines_read, 1,
                  IF StartIdx = 0 THEN Len(lines_read) ELSE StartIdx - 1)

\* the line the step has read
LineRead == Content(lines_read'[Len(lines_read')])

\* C19: the zone only goes forward, one zone at a time, and no line is read
\* once the end marker was; the noise buffer is the lines read before the
\* first start marker, in order, and does not change afterwards; in the noise
\* zone every line but the start marker is accumulated, OK and
\* KITTY_DATA_END included; in the payload zone every line but the end marker
\* is yielded, KITTY_DATA_START and OK included, and the zone stays
C19_ZonesOnlyForward ==
    [][ /\ started' \in {started, started + 1}
        /\ started' <= 2
        /\ started >= 1 => leading_data' = leading_data
        /\ lines_read' = lines_read => leading_data' = leading_data
        /\ lines_read' # lines_read =>
              /\ pc = "read"
              /\ leading_data' = NoiseRead'
              /\ started = 0 =>
                    IF LineRead = KITTY_DATA_START
                    THEN started' = 1 /\ leading_data' = leading_data
                    ELSE started' = 0 /\ leading_data' = leading_data \o LineRead
              /\ (started = 1 /\ LineRead = OK) => started' = 2
              /\ (started = 1 /\ LineRead # OK) => pc' = "cleanup" /\ raised'
              /\ started = 2 =>
                    /\ started' = 2
                    /\ IF LineRead = KITTY_DATA_END
                       THEN pc' = "joined" /\ data' = data
                       ELSE pc' = "read" /\ data' = data \o LineRead
      ]_vars

C19_Witness ==
    /\ pc = "joined"
    /\ Len(lines_read) = 5
    /\ Content(lines_read[1]) = OK
    /\ Content(lines_read[4]) = KITTY_DATA_START
    /\ leading_data = OK
    /\ data = KITTY_DATA_START

\* ---- the environment of the exec'd shell
\* the exec is the one of a shell-specific branch
IntegrationExec ==
    /\ Len(LastExec.argv) = 2
    /\ LastExec.argv[2] \in {<<"-l">>, <<"--posix">>}
    /\ exec_cmd = <<>>
    /\ KsiHasToken
    /\ ~KsiHasNoRc
    /\ Lower(ShellBase) \in {"zsh", "fish", "bash"}

\* C20: at an exec KITTY_SHELL_INTEGRATION is in the environment only when
\* the exec is that of a shell-specific branch; at the one-shot -c exec and
\* at the default login exec it has been removed
C20_KsiOnlyWithIntegration ==
    execs # <<>> =>
        /\ "KITTY_SHELL_INTEGRATION" \in DOMAIN env => IntegrationExec
        /\ LastExec.argv \in { << <<ShellBase>>, <<"-c">>, <<"ls -l">> >>,
                                << <<"-", ShellBase>> >> } =>
              "KITTY_SHELL_INTEGRATION" \notin DOMAIN env
        /\ IntegrationExec =>
              /\ "KITTY_SHELL_INTEGRATION" \in DOMAIN env
              /\ env["KITTY_SHELL_INTEGRATION"] = KsiAtLaunch

C20_Witness ==
    /\ pc = "execd"
    /\ ZshBranchRan
    /\ ~HasZshStartupFile
    /\ KsiAtLaunch = <<"enabled">>
    /\ "KITTY_SHELL_INTEGRATION" \notin DOMAIN env
    /\ LastExec.argv = << <<"-", "zsh">> >>

====
